---- MODULE Spec2Model ----
(***************************************************************************)
(* Warehouse management application (ohtuvarasto).                         *)
(*                                                                         *)
(* The registry `warehouses` maps a name to a Varasto (tilavuus, saldo).   *)
(* Every route of app.py is one action; a handler is an operator from the  *)
(* registry and the request to the new registry and the response.          *)
(* Strings are sequences of one-character strings, so that str.strip()     *)
(* and float() are modelled by what they do.  Numbers are integers: the    *)
(* form inputs are integer literals (optionally signed and padded with     *)
(* blanks) or strings float() rejects.                                     *)
(***************************************************************************)
EXTENDS Integers, Sequences, FiniteSets, TLC

VARIABLES warehouses, prev, request, response

vars == <<warehouses, prev, request, response>>

(* ---------------- bounds ---------------- *)

\* largest digit used in a numeric form field
MaxDigit == 2

(* ---------------- helpers ---------------- *)

Min(a, b) == IF a <= b THEN a ELSE b

Max(a, b) == IF a >= b THEN a ELSE b

DigitChars == <<"0", "1", "2", "3", "4", "5", "6", "7", "8", "9">>

IsDigit(c) == \E i \in 1..Len(DigitChars) : DigitChars[i] = c

DigitValue(c) == (CHOOSE i \in 1..Len(DigitChars) : DigitChars[i] = c) - 1

IsSpace(c) == c = " "

RECURSIVE lstrip(_)
lstrip(s) == IF s = <<>> THEN s
             ELSE IF IsSpace(Head(s)) THEN lstrip(Tail(s)) ELSE s

RECURSIVE rstrip(_)
rstrip(s) == IF s = <<>> THEN s
             ELSE IF IsSpace(s[Len(s)]) THEN rstrip(SubSeq(s, 1, Len(s) - 1)) ELSE s

\* str.strip()
strip(s) == rstrip(lstrip(s))

\* the unsigned part of a numeric literal, blanks and sign removed
Unsigned(s) == LET t == strip(s)
               IN  IF t # <<>> /\ Head(t) \in {"-", "+"} THEN Tail(t) ELSE t

RECURSIVE DigitsValue(_, _)
DigitsValue(s, acc) == IF s = <<>> THEN acc
                       ELSE DigitsValue(Tail(s), 10 * acc + DigitValue(Head(s)))

\* float(s) does not raise ValueError
float_ok(s) == LET u == Unsigned(s)
               IN  u # <<>> /\ \A i \in 1..Len(u) : IsDigit(u[i])

\* float(s), for a string float() accepts
float_value(s) == LET t == strip(s)
                      v == DigitsValue(Unsigned(s), 0)
                  IN  IF Head(t) = "-" THEN 0 - v ELSE v

(* ---------------- Varasto ---------------- *)

\* Varasto(tilavuus, alku_saldo)
Varasto(tilavuus, alku_saldo) ==
    LET t == Max(0, tilavuus)
    IN  [tilavuus |-> t, saldo |-> Max(0, Min(alku_saldo, t))]

paljonko_mahtuu(v) == v.tilavuus - v.saldo

lisaa_varastoon(v, maara) ==
    IF maara <= 0 THEN v
    ELSE [v EXCEPT !.saldo = Min(v.tilavuus, v.saldo + maara)]

\* the pool after the call, and the returned amount
ota_varastosta(v, maara) ==
    IF maara <= 0 THEN [varasto |-> v, palautus |-> 0]
    ELSE LET otettu == Min(maara, v.saldo)
         IN  [varasto |-> [v EXCEPT !.saldo = v.saldo - otettu], palautus |-> otettu]

aseta_tilavuus(v, tilavuus) ==
    LET t == Max(0, tilavuus)
    IN  [tilavuus |-> t, saldo |-> IF v.saldo > t THEN t ELSE v.saldo]

(* ---------------- requests and responses ---------------- *)

NoError == ""

NoMessage == <<>>

\* render_template(page, name=..., error=..., message=...)
render_template(page, name, error, message) ==
    [status |-> 200, page |-> page, name |-> name, error |-> error, message |-> message]

\* redirect(url_for(endpoint, name=...))
redirect(endpoint, name) ==
    [status |-> 302, page |-> endpoint, name |-> name, error |-> NoError, message |-> NoMessage]

\* an unhandled exception in a view function
InternalServerError ==
    [status |-> 500, page |-> "error", name |-> <<>>, error |-> NoError, message |-> NoMessage]

\* request.form.get(key, default)
FormGet(form, key, default) == IF key \in DOMAIN form THEN form[key] ELSE default

\* warehouses[name] = v
Put(ws, name, v) == [n \in DOMAIN ws \cup {name} |-> IF n = name THEN v ELSE ws[n]]

(* ---------------- view functions of app.py ---------------- *)

\* the outcome of a view function: the registry after it and its response
Outcome(ws, resp) == [warehouses |-> ws, response |-> resp]

\* _parse_floats: ok is FALSE when float() raises ValueError
_parse_floats(capacity_str, balance_str) ==
    IF float_ok(capacity_str) /\ float_ok(balance_str)
    THEN [ok |-> TRUE, capacity |-> float_value(capacity_str),
          balance |-> float_value(balance_str)]
    ELSE [ok |-> FALSE, capacity |-> 0, balance |-> 0]

\* mutant: the numbers are not parsed before the name checks
_validate_create_input_noparse(ws, name, capacity_str, balance_str) ==
    IF name = <<>> THEN "Name is required"
    ELSE IF name \in DOMAIN ws THEN "A warehouse with this name already exists"
    ELSE NoError

\* mutant: a name already in the registry is not rejected
_validate_create_input_nodup(ws, name, capacity_str, balance_str) ==
    IF ~_parse_floats(capacity_str, balance_str).ok
    THEN "Capacity and initial balance must be numbers"
    ELSE IF name = <<>> THEN "Name is required"
    ELSE NoError

\* _validate_create_input: the error message, or NoError for None
_validate_create_input(ws, name, capacity_str, balance_str) ==
    IF ~_parse_floats(capacity_str, balance_str).ok
    THEN "Capacity and initial balance must be numbers"
    ELSE IF name = <<>> THEN "Name is required"
    ELSE IF name \in DOMAIN ws THEN "A warehouse with this name already exists"
    ELSE NoError

index(ws) == Outcome(ws, render_template("index.html", <<>>, NoError, NoMessage))

\* mutant: the arguments of Varasto are passed in the wrong order
create_warehouse_swapped(ws, method, form) ==
    IF method = "POST"
    THEN LET name == strip(FormGet(form, "name", <<>>))
             capacity_str == FormGet(form, "capacity", <<"0">>)
             balance_str == FormGet(form, "initial_balance", <<"0">>)
             error == _validate_create_input(ws, name, capacity_str, balance_str)
             parsed == _parse_floats(capacity_str, balance_str)
         IN  IF error # NoError
             THEN Outcome(ws, render_template("create.html", <<>>, error, NoMessage))
             ELSE IF ~parsed.ok
             THEN Outcome(ws, InternalServerError)
             ELSE Outcome(Put(ws, name, Varasto(parsed.balance, parsed.capacity)),
                          redirect("index", <<>>))
    ELSE Outcome(ws, render_template("create.html", <<>>, NoError, NoMessage))

create_warehouse(ws, method, form) ==
    IF method = "POST"
    THEN LET name == strip(FormGet(form, "name", <<>>))
             capacity_str == FormGet(form, "capacity", <<"0">>)
             balance_str == FormGet(form, "initial_balance", <<"0">>)
             error == _validate_create_input(ws, name, capacity_str, balance_str)
             parsed == _parse_floats(capacity_str, balance_str)
         IN  IF error # NoError
             THEN Outcome(ws, render_template("create.html", <<>>, error, NoMessage))
             ELSE IF ~parsed.ok
             THEN Outcome(ws, InternalServerError)
             ELSE Outcome(Put(ws, name, Varasto(parsed.capacity, parsed.balance)),
                          redirect("index", <<>>))
    ELSE Outcome(ws, render_template("create.html", <<>>, NoError, NoMessage))

view_warehouse(ws, name) ==
    IF name \notin DOMAIN ws
    THEN Outcome(ws, redirect("index", <<>>))
    ELSE Outcome(ws, render_template("view.html", name, NoError, NoMessage))

\* mutant: the capacity is assigned to the field, not set through the Varasto method
_update_warehouse_capacity_assign(warehouse, new_capacity) ==
    [warehouse EXCEPT !.tilavuus = new_capacity]

_update_warehouse_capacity(warehouse, new_capacity) ==
    aseta_tilavuus(warehouse, new_capacity)

\* mutant: the warehouse is replaced by a new one of the new capacity
modify_warehouse_rebuild(ws, name, method, form) ==
    IF name \notin DOMAIN ws
    THEN Outcome(ws, redirect("index", <<>>))
    ELSE IF method = "POST"
    THEN LET capacity_str == FormGet(form, "capacity", <<"0">>)
         IN  IF ~float_ok(capacity_str)
             THEN Outcome(ws, render_template("modify.html", name,
                                              "Capacity must be a number", NoMessage))
             ELSE Outcome(Put(ws, name, Varasto(float_value(capacity_str), 0)),
                          redirect("view_warehouse", name))
    ELSE Outcome(ws, render_template("modify.html", name, NoError, NoMessage))

modify_warehouse(ws, name, method, form) ==
    IF name \notin DOMAIN ws
    THEN Outcome(ws, redirect("index", <<>>))
    ELSE IF method = "POST"
    THEN LET capacity_str == FormGet(form, "capacity", <<"0">>)
         IN  IF ~float_ok(capacity_str)
             THEN Outcome(ws, render_template("modify.html", name,
                                              "Capacity must be a number", NoMessage))
             ELSE Outcome(Put(ws, name, _update_warehouse_capacity(
                                            ws[name], float_value(capacity_str))),
                          redirect("view_warehouse", name))
    ELSE Outcome(ws, render_template("modify.html", name, NoError, NoMessage))

\* mutant: the amount is added to the field, not through the Varasto method
add_items_assign(ws, name, method, form) ==
    IF name \notin DOMAIN ws
    THEN Outcome(ws, redirect("index", <<>>))
    ELSE IF method = "POST"
    THEN LET amount_str == FormGet(form, "amount", <<"0">>)
         IN  IF ~float_ok(amount_str)
             THEN Outcome(ws, render_template("add.html", name,
                                              "Amount must be a number", NoMessage))
             ELSE Outcome(Put(ws, name, [ws[name] EXCEPT
                                            !.saldo = @ + float_value(amount_str)]),
                          redirect("view_warehouse", name))
    ELSE Outcome(ws, render_template("add.html", name, NoError, NoMessage))

\* mutant: a missing warehouse is created empty instead of redirecting
add_items_setdefault(ws, name, method, form) ==
    LET wd == IF name \in DOMAIN ws THEN ws ELSE Put(ws, name, Varasto(0, 0))
    IN  IF method = "POST"
        THEN LET amount_str == FormGet(form, "amount", <<"0">>)
             IN  IF ~float_ok(amount_str)
                 THEN Outcome(wd, render_template("add.html", name,
                                                  "Amount must be a number", NoMessage))
                 ELSE Outcome(Put(wd, name, lisaa_varastoon(wd[name],
                                                            float_value(amount_str))),
                              redirect("view_warehouse", name))
        ELSE Outcome(wd, render_template("add.html", name, NoError, NoMessage))

add_items(ws, name, method, form) ==
    IF name \notin DOMAIN ws
    THEN Outcome(ws, redirect("index", <<>>))
    ELSE IF method = "POST"
    THEN LET amount_str == FormGet(form, "amount", <<"0">>)
         IN  IF ~float_ok(amount_str)
             THEN Outcome(ws, render_template("add.html", name,
                                              "Amount must be a number", NoMessage))
             ELSE Outcome(Put(ws, name, lisaa_varastoon(ws[name], float_value(amount_str))),
                          redirect("view_warehouse", name))
    ELSE Outcome(ws, render_template("add.html", name, NoError, NoMessage))

\* mutant: the message reports the requested amount, not the returned one
take_items_requested(ws, name, method, form) ==
    IF name \notin DOMAIN ws
    THEN Outcome(ws, redirect("index", <<>>))
    ELSE IF method = "POST"
    THEN LET amount_str == FormGet(form, "amount", <<"0">>)
         IN  IF ~float_ok(amount_str)
             THEN Outcome(ws, render_template("take.html", name,
                                              "Amount must be a number", NoMessage))
             ELSE LET otto == ota_varastosta(ws[name], float_value(amount_str))
                  IN  Outcome(Put(ws, name, otto.varasto),
                              render_template("take.html", name, NoError,
                                              <<float_value(amount_str)>>))
    ELSE Outcome(ws, render_template("take.html", name, NoError, NoMessage))

\* the message "Took {taken} items from the warehouse" is modelled as <<taken>>
take_items(ws, name, method, form) ==
    IF name \notin DOMAIN ws
    THEN Outcome(ws, redirect("index", <<>>))
    ELSE IF method = "POST"
    THEN LET amount_str == FormGet(form, "amount", <<"0">>)
         IN  IF ~float_ok(amount_str)
             THEN Outcome(ws, render_template("take.html", name,
                                              "Amount must be a number", NoMessage))
             ELSE LET otto == ota_varastosta(ws[name], float_value(amount_str))
                  IN  Outcome(Put(ws, name, otto.varasto),
                              render_template("take.html", name, NoError,
                                              <<otto.palautus>>))
    ELSE Outcome(ws, render_template("take.html", name, NoError, NoMessage))

(* ---------------- search ---------------- *)

UpperChars == <<"A", "B", "C", "D", "E", "F", "G", "H", "I", "J", "K", "L", "M",
                "N", "O", "P", "Q", "R", "S", "T", "U", "V", "W", "X", "Y", "Z">>

LowerChars == <<"a", "b", "c", "d", "e", "f", "g", "h", "i", "j", "k", "l", "m",
                "n", "o", "p", "q", "r", "s", "t", "u", "v", "w", "x", "y", "z">>

LowerChar(c) == IF \E i \in 1..Len(UpperChars) : UpperChars[i] = c
                THEN LowerChars[CHOOSE i \in 1..Len(UpperChars) : UpperChars[i] = c]
                ELSE c

\* str.lower()
lower(s) == [i \in 1..Len(s) |-> LowerChar(s[i])]

\* q in s, for strings
Contains(q, s) == \E k \in 0..(Len(s) - Len(q)) : SubSeq(s, k + 1, k + Len(q)) = q

\* the search page: the query, the entries found and the notice it shows
search_page(query, results, notice) ==
    [status |-> 200, page |-> "search.html", name |-> <<>>, error |-> NoError,
     message |-> NoMessage, query |-> query, results |-> results, notice |-> notice]

NoNotice == ""

\* mutant: the names are compared with the query as written
search_case_sensitive(ws, args) ==
    LET query == FormGet(args, "q", <<>>)
        results == [n \in {m \in DOMAIN ws : Contains(query, m)} |-> ws[n]]
    IN  IF query = <<>>
        THEN Outcome(ws, search_page(query, [n \in {} |-> ws[n]],
                                     "Please enter a search term"))
        ELSE IF DOMAIN results = {}
        THEN Outcome(ws, search_page(query, results, "No warehouses found"))
        ELSE Outcome(ws, search_page(query, results, NoNotice))

\* the search view: q is the query argument of the URL
search(ws, args) ==
    LET query == FormGet(args, "q", <<>>)
        results == [n \in {m \in DOMAIN ws : Contains(lower(query), lower(m))} |-> ws[n]]
    IN  IF query = <<>>
        THEN Outcome(ws, search_page(query, [n \in {} |-> ws[n]],
                                     "Please enter a search term"))
        ELSE IF DOMAIN results = {}
        THEN Outcome(ws, search_page(query, results, "No warehouses found"))
        ELSE Outcome(ws, search_page(query, results, NoNotice))

(* ---------------- inputs ---------------- *)

Methods == {"GET", "POST"}

\* the name field of the create form, before strip()
RawNames == { <<" ">>, <<" ", "a", " ">>, <<"A", "b">> }

\* the <name> part of a URL
UrlNames == { <<"a">>, <<"A", "b">>, <<"c">> }

\* one-digit literals
DigitStrs == { <<DigitChars[d + 1]>> : d \in 0..MaxDigit }

\* a string float() rejects
BadStr == <<"x">>

\* the capacity and amount fields: literals float() accepts, and strings it rejects
NumStrs == DigitStrs \cup { <<"-", "1">>, <<" ", "2">>, BadStr }

\* the capacity and initial balance fields of the create form
CapStrs == DigitStrs \cup { <<"-", "1">> }

BalStrs == { <<"-", "1">>, <<"1">>, <<"+", DigitChars[MaxDigit + 1]>>, BadStr }

NoForm == [k \in {} |-> <<>>]

\* request.form of a create request
CreateForms(method) ==
    IF method = "GET" THEN {NoForm}
    ELSE {NoForm}
         \cup { [name |-> n] : n \in RawNames }
         \cup { [name |-> n, capacity |-> c] : n \in RawNames, c \in {<<"1">>, BadStr} }
         \cup { [name |-> n, capacity |-> c, initial_balance |-> b] :
                    n \in RawNames, c \in CapStrs, b \in BalStrs }

\* request.form of a modify, add or take request, whose one field is key
FieldForms(method, key) ==
    IF method = "GET" THEN {NoForm, [k \in {key} |-> BadStr]}
    ELSE {NoForm} \cup { [k \in {key} |-> v] : v \in NumStrs }

Request(route, method, name, form) ==
    [route |-> route, method |-> method, name |-> name, form |-> form]

\* the query of a search request
Queries == { <<>>, <<"a">>, <<"A">>, <<"B">>, <<"a", "B">>, <<"b", "a">> }

\* request.args of a search request
SearchArgs == {NoForm} \cup { [k \in {"q"} |-> q] : q \in Queries }

SearchRequest(args) ==
    [route |-> "search", method |-> "GET", name |-> <<>>, form |-> NoForm, args |-> args]

(* ---------------- the state machine ---------------- *)

NoRequest == Request("none", "GET", <<>>, NoForm)

NoResponse == [status |-> 0, page |-> "none", name |-> <<>>, error |-> NoError,
               message |-> NoMessage]

Init == /\ warehouses = [n \in {} |-> Varasto(0, 0)]
        /\ prev = warehouses
        /\ request = NoRequest
        /\ response = NoResponse

\* serve request req: prev keeps the registry as it was before the request
Serve(req, out) == /\ request' = req
                   /\ prev' = warehouses
                   /\ warehouses' = out.warehouses
                   /\ response' = out.response

ClearWarehouses ==
    Serve(Request("clear_warehouses", "CALL", <<>>, NoForm),
          Outcome([n \in {} |-> Varasto(0, 0)], NoResponse))

Index == Serve(Request("index", "GET", <<>>, NoForm), index(warehouses))

CreateWarehouse ==
    \E method \in Methods : \E form \in CreateForms(method) :
        Serve(Request("create", method, <<>>, form),
              create_warehouse(warehouses, method, form))

ViewWarehouse ==
    \E name \in UrlNames :
        Serve(Request("view", "GET", name, NoForm), view_warehouse(warehouses, name))

ModifyWarehouse ==
    \E name \in UrlNames, method \in Methods : \E form \in FieldForms(method, "capacity") :
        Serve(Request("modify", method, name, form),
              modify_warehouse(warehouses, name, method, form))

AddItems ==
    \E name \in UrlNames, method \in Methods : \E form \in FieldForms(method, "amount") :
        Serve(Request("add", method, name, form),
              add_items(warehouses, name, method, form))

TakeItems ==
    \E name \in UrlNames, method \in Methods : \E form \in FieldForms(method, "amount") :
        Serve(Request("take", method, name, form),
              take_items(warehouses, name, method, form))

Search ==
    \E args \in SearchArgs :
        Serve(SearchRequest(args), search(warehouses, args))

Next == \/ ClearWarehouses
        \/ Index
        \/ CreateWarehouse
        \/ ViewWarehouse
        \/ ModifyWarehouse
        \/ AddItems
        \/ TakeItems
        \/ Search

Spec == Init /\ [][Next]_vars

(* ---------------- properties ---------------- *)

\* the numeric field `key` of the last request, as the view function reads it
Field(key) == FormGet(request.form, key, <<"0">>)

\* the last request was a POST on `route` for a warehouse of the registry,
\* and its numeric field `key` was a number: the Varasto method was called
Called(route, key) == /\ request.route = route
                      /\ request.method = "POST"
                      /\ request.name \in DOMAIN prev
                      /\ float_ok(Field(key))

\* the warehouse of the last request, before and after it
Old == prev[request.name]

New == warehouses[request.name]

\* C1: every warehouse of the registry has tilavuus >= 0 and
\* 0 <= saldo <= tilavuus, so that its free space is never negative,
\* whatever create, add, take and modify requests were served.
C1_PoolInvariant ==
    \A n \in DOMAIN warehouses :
        LET v == warehouses[n]
        IN  /\ v.tilavuus >= 0
            /\ 0 <= v.saldo
            /\ v.saldo <= v.tilavuus
            /\ paljonko_mahtuu(v) >= 0

\* a capacity below the balance has been set
C1_Witness == /\ Called("modify", "capacity")
              /\ float_value(Field("capacity")) < Old.saldo

\* the create request met every check of the view function
CreateAccepted ==
    /\ request.route = "create"
    /\ request.method = "POST"
    /\ float_ok(Field("capacity"))
    /\ float_ok(Field("initial_balance"))
    /\ strip(FormGet(request.form, "name", <<>>)) # <<>>
    /\ strip(FormGet(request.form, "name", <<>>)) \notin DOMAIN prev

\* C2: a created warehouse has tilavuus = max(0, c) and
\* saldo = max(0, min(l, max(0, c))) for the requested capacity c and
\* initial balance l (0 when absent), and the construction never fails.
C2_ConstructClamps ==
    CreateAccepted =>
        LET key == strip(FormGet(request.form, "name", <<>>))
            c == float_value(Field("capacity"))
            l == float_value(Field("initial_balance"))
        IN  /\ response.status = 302
            /\ key \in DOMAIN warehouses
            /\ warehouses[key].tilavuus = Max(0, c)
            /\ warehouses[key].saldo = Max(0, Min(l, Max(0, c)))

\* a warehouse was created with an initial balance above its capacity
C2_Witness == /\ CreateAccepted
              /\ float_value(Field("capacity")) > 0
              /\ float_value(Field("initial_balance")) > float_value(Field("capacity"))

\* C3: adding an amount leaves tilavuus unchanged; saldo is unchanged when
\* the amount is <= 0 and becomes min(tilavuus, saldo + amount) otherwise;
\* no error is raised.
C3_DepositEffect ==
    Called("add", "amount") =>
        LET a == float_value(Field("amount"))
        IN  /\ New.tilavuus = Old.tilavuus
            /\ New.saldo = IF a <= 0 THEN Old.saldo ELSE Min(Old.tilavuus, Old.saldo + a)
            /\ response = redirect("view_warehouse", request.name)

\* more was added than the free space of a warehouse that had some
C3_Witness == /\ Called("add", "amount")
              /\ Old.saldo < Old.tilavuus
              /\ Old.saldo + float_value(Field("amount")) > Old.tilavuus

\* C4: taking an amount a returns min(a, saldo) when a > 0 and 0 when
\* a <= 0, lowers saldo by exactly the returned amount and leaves tilavuus
\* unchanged; the returned amount is in [0, old saldo], and a <= 0 leaves
\* the whole state unchanged.
C4_WithdrawEffect ==
    Called("take", "amount") =>
        LET a == float_value(Field("amount"))
            otettu == IF a > 0 THEN Min(a, Old.saldo) ELSE 0
        IN  /\ response.message = <<otettu>>
            /\ New.saldo = Old.saldo - otettu
            /\ New.tilavuus = Old.tilavuus
            /\ 0 <= otettu /\ otettu <= Old.saldo
            /\ (a <= 0 => warehouses = prev)

\* more was requested than a non-empty warehouse held
C4_Witness == /\ Called("take", "amount")
              /\ Old.saldo > 0
              /\ float_value(Field("amount")) > Old.saldo

\* C5: setting the capacity to c gives tilavuus = max(0, c) and
\* saldo = min(old saldo, max(0, c)): the balance changes exactly when it
\* exceeded the new capacity; no error is raised.
C5_ResizeEffect ==
    Called("modify", "capacity") =>
        LET t == Max(0, float_value(Field("capacity")))
        IN  /\ New.tilavuus = t
            /\ New.saldo = Min(Old.saldo, t)
            /\ (New.saldo # Old.saldo <=> Old.saldo > t)
            /\ response = redirect("view_warehouse", request.name)

\* a positive capacity below the balance has been set
C5_Witness == /\ Called("modify", "capacity")
              /\ float_value(Field("capacity")) > 0
              /\ float_value(Field("capacity")) < Old.saldo

\* C6 as stated: a new capacity c below the balance makes the balance c, and
\* any other c leaves the balance unchanged.
C6_ResizeLevelAsStated ==
    Called("modify", "capacity") =>
        LET c == float_value(Field("capacity"))
        IN  /\ (c < Old.saldo => New.saldo = c)
            /\ (c >= Old.saldo => New.saldo = Old.saldo)

\* C6 amended: a new capacity c with 0 <= c < saldo makes the balance c, a
\* negative c makes the balance 0, and c >= saldo leaves the balance unchanged.
C6_ResizeLevel ==
    Called("modify", "capacity") =>
        LET c == float_value(Field("capacity"))
        IN  /\ (0 <= c /\ c < Old.saldo => New.saldo = c)
            /\ (c < 0 => New.saldo = 0)
            /\ (c >= Old.saldo => New.saldo = Old.saldo)

\* a negative capacity has been set on a warehouse that was not empty
C6_Witness == /\ Called("modify", "capacity")
              /\ float_value(Field("capacity")) < 0
              /\ Old.saldo > 0

\* the balance after one more add request, of amount field b_str, for the
\* warehouse of the last request
SaldoAfterAdding(b_str) ==
    add_items(warehouses, request.name, "POST",
              [k \in {"amount"} |-> b_str]).warehouses[request.name].saldo

\* C7 as stated: after adding a >= 0 and then any b, the balance is the
\* initial balance + a + b when a + b fits the initial free space, and
\* tilavuus when it does not.
C7_DepositTwiceAsStated ==
    (Called("add", "amount") /\ float_value(Field("amount")) >= 0) =>
        \A b_str \in {s \in NumStrs : float_ok(s)} :
            LET a == float_value(Field("amount"))
                b == float_value(b_str)
                tilaa == Old.tilavuus - Old.saldo
            IN  /\ (a + b <= tilaa => SaldoAfterAdding(b_str) = Old.saldo + a + b)
                /\ (a + b > tilaa => SaldoAfterAdding(b_str) = Old.tilavuus)

\* C7 amended: the same for a >= 0 and b >= 0.
C7_DepositTwice ==
    (Called("add", "amount") /\ float_value(Field("amount")) >= 0) =>
        \A b_str \in {s \in NumStrs : float_ok(s) /\ float_value(s) >= 0} :
            LET a == float_value(Field("amount"))
                b == float_value(b_str)
                tilaa == Old.tilavuus - Old.saldo
            IN  /\ (a + b <= tilaa => SaldoAfterAdding(b_str) = Old.saldo + a + b)
                /\ (a + b > tilaa => SaldoAfterAdding(b_str) = Old.tilavuus)

\* a positive amount was added and a second positive amount still fits
C7_Witness ==
    /\ Called("add", "amount")
    /\ float_value(Field("amount")) > 0
    /\ \E b_str \in NumStrs :
           /\ float_ok(b_str)
           /\ float_value(b_str) > 0
           /\ float_value(Field("amount")) + float_value(b_str)
                  <= Old.tilavuus - Old.saldo

\* a numeric field of the last request is not a number
BadNumber ==
    \/ /\ request.route = "create"
       /\ ~(float_ok(Field("capacity")) /\ float_ok(Field("initial_balance")))
    \/ /\ request.route = "modify"
       /\ ~float_ok(Field("capacity"))
    \/ /\ request.route \in {"add", "take"}
       /\ ~float_ok(Field("amount"))

\* C8 as stated: every request with a numeric field that is not a number is
\* answered with an error message and leaves the registry unchanged.
C8_BadNumberAsStated ==
    BadNumber => /\ response.error # NoError
                 /\ warehouses = prev

\* C8 amended: a POST request with a numeric field that is not a number is
\* answered with an error message when it is a create request or names a
\* warehouse of the registry; for a name not in the registry it is redirected
\* to the index; in every case, GET included, the registry is unchanged.
C8_BadNumber ==
    BadNumber =>
        /\ warehouses = prev
        /\ (request.method = "POST"
              /\ (request.route = "create" \/ request.name \in DOMAIN prev)
            => response.status = 200 /\ response.error # NoError)
        /\ (request.route # "create" /\ request.name \notin DOMAIN prev
            => response = redirect("index", <<>>))

\* a take request with a bad amount was served for a non-empty warehouse
C8_Witness == /\ BadNumber
              /\ request.route = "take"
              /\ request.method = "POST"
              /\ request.name \in DOMAIN prev
              /\ Old.saldo > 0

\* C9: a create request is accepted only if its stripped name is not empty
\* and not in the registry; an empty or duplicate name is answered with an
\* error and the registry is unchanged; no key of the registry is empty, and
\* a create request never replaces or resets a stored warehouse.
C9_CreateNameRule ==
    /\ \A n \in DOMAIN warehouses : n # <<>> /\ n = strip(n)
    /\ (request.route = "create" /\ request.method = "POST") =>
           LET key == strip(FormGet(request.form, "name", <<>>))
           IN  /\ (warehouses # prev \/ response.status = 302
                   => key # <<>> /\ key \notin DOMAIN prev)
               /\ (key = <<>> \/ key \in DOMAIN prev
                   => response.error # NoError /\ warehouses = prev)
               /\ \A n \in DOMAIN prev :
                      n \in DOMAIN warehouses /\ warehouses[n] = prev[n]

\* a create request with valid numbers named a stored warehouse of another capacity
C9_Witness ==
    /\ request.route = "create"
    /\ request.method = "POST"
    /\ float_ok(Field("capacity")) /\ float_ok(Field("initial_balance"))
    /\ strip(FormGet(request.form, "name", <<>>)) \in DOMAIN prev
    /\ prev[strip(FormGet(request.form, "name", <<>>))].tilavuus
           # Max(0, float_value(Field("capacity")))

\* C10: a view, modify, add or take request for a name that is not in the
\* registry is redirected to the index, whatever its method and form, and
\* leaves the registry unchanged (no entry is created for the name).
C10_MissingNameRedirects ==
    (request.route \in {"view", "modify", "add", "take"}
       /\ request.name \notin DOMAIN prev)
    => /\ response = redirect("index", <<>>)
       /\ warehouses = prev
       /\ request.name \notin DOMAIN warehouses

\* an add request with a positive amount named no warehouse of a non-empty registry
C10_Witness == /\ request.route = "add"
               /\ request.method = "POST"
               /\ request.name \notin DOMAIN prev
               /\ DOMAIN prev # {}
               /\ float_ok(Field("amount"))
               /\ float_value(Field("amount")) > 0

\* the last request was a search
Searched == request.route = "search"

\* the query of the last search, "" when the URL has none
Query == FormGet(request.args, "q", <<>>)

\* c and d are the same letter, in either case
SameLetter(c, d) ==
    \/ c = d
    \/ \E i \in 1..Len(UpperChars) :
           {c, d} = {UpperChars[i], LowerChars[i]}

\* q occurs in n at some position, letter by letter, whatever the case
Matches(q, n) ==
    \E k \in 0..(Len(n) - Len(q)) :
        \A j \in 1..Len(q) : SameLetter(n[k + j], q[j])

C11_WitnessNoQuery ==
    /\ Searched
    /\ Query = <<>>
    /\ DOMAIN prev # {}

====
